---- MODULE Spec2Model ----
(***************************************************************************)
(* Model of src/index.ts: a GraphQL server (Apollo) over three Mongoose    *)
(* collections (users, products, orders), the per-request context callback *)
(* that resolves the caller from a JWT, and the resolvers.                 *)
(*                                                                         *)
(* A request is served in two steps, as the server does: the context       *)
(* callback runs first (action Context), then the resolver of the          *)
(* operation (one action per resolver).  In Spec requests are served one   *)
(* at a time, so every resolver runs as a whole.                           *)
(*                                                                         *)
(* Encodings.  A value that may be null/undefined is a sequence of length  *)
(* at most one: <<>> is null, <<v>> is v.  An optional input field is      *)
(* wrapped once more: <<>> is "key absent", <<<<>>>> is an explicit null.  *)
(* ObjectIds are the numbers 1, 2, ... per collection, in creation order;  *)
(* an id is never reused after a delete.  Every id a client sends is a     *)
(* well-formed ObjectId.  Prices are integers.  Products carry one string  *)
(* field, name; description and image are handled by the code exactly as   *)
(* name is.  createdAt carries no behaviour and is left out.               *)
(***************************************************************************)
EXTENDS Integers, Sequences, FiniteSets, TLC

(* ------------------------------ bounds --------------------------------- *)

\* Documents ever created, over the three collections.
MaxDocs == 3
\* Longest productIds list a client sends.
MaxLen == 2

(* ------------------------------ domains -------------------------------- *)

None == <<>>
Some(v) == <<v>>
Maybe(S) == {None} \cup {Some(v) : v \in S}

JWT_SECRET == "secret"

\* The ids a client sends to a collection that has allocated n ids: each of
\* them and one id that names no document (all such ids behave alike)
Ids(n) == 1..(n + 1)
Names == {"n"}
Emails == {"e1", "e2"}
Passwords == {"p1", "p2"}
Prices == {0, 1, 2}
StatusEnum == {"placed", "processing", "shipped", "delivered"}
StatusDefault == "placed"
\* updateOrderStatus takes status: String!, any string
StatusInputs == StatusEnum \cup {"returned"}
IdLists(n) == UNION {[1..k -> Ids(n)] : k \in 0..MaxLen}
\* the productIds of the createOrder requests followed store call by store
\* call: no id or one
OneIdLists(n) == {<<>>} \cup {<<i>> : i \in Ids(n)}
\* the connections on which a request can be in flight while another runs
Clients == {"a", "b"}

(* ------------------------------- shapes -------------------------------- *)

\* What a client sends: the operation and its arguments
Request ==
  [op : {"getProduct", "order", "deleteProduct", "deleteOrder"}, id : Nat]
    \cup [op : {"updateProduct"}, id : Nat, name : Maybe(Names),
          price : Maybe(Maybe(Prices))]
    \cup [op : {"createProduct"}, name : Names, price : Prices]
    \cup [op : {"signUp"}, name : Names, email : Emails, password : Passwords]
    \cup [op : {"signIn"}, email : Emails, password : Passwords]
    \cup [op : {"userOrders"}, userId : Nat]
    \cup [op : {"createOrder"}, userId : Nat, productIds : Seq(Nat)]
    \cup [op : {"updateOrderStatus"}, id : Nat, status : StatusInputs]
    \cup [op : {"products", "orders", "signOut", "none", "context",
                "createOrder", "signUp", "createProduct", "deleteProduct"}]

\* The documents of the users and products collections
UserDoc == [id : Nat, name : Names, email : Emails, password : Passwords]
ProductDoc == [id : Nat, name : Names, price : Maybe(Prices)]

\* The context value of a request without a user
Anonymous == [user |-> None]

\* users, products, orders: the collections, each a function from the ids of
\* its documents; oid: the number of ids each collection has allocated;
\* pc: "idle", or "resolver" once the context of a request is built;
\* token, ctx: the authorization header and the context of that request;
\* last: the response to the request served last;
\* flight: per connection, the resolver that is suspended at a store call
\* (its request, the call it awaits, its locals), or null.
VARIABLES users, products, orders, oid, pc, token, ctx, last, flight

vars == <<users, products, orders, oid, pc, token, ctx, last, flight>>

\* The documents of the orders collection
OrderDoc ==
  [id : Nat, status : StatusInputs, user : Nat, products : Seq(Nat),
   totalPrice : Int]

\* the authorization header: absent, a token signed with another secret, or
\* a token signed with JWT_SECRET for the user id a client chose
Tokens(n) ==
  {None, Some([userId |-> 1, sig |-> "forged"])}
    \cup {Some([userId |-> u, sig |-> JWT_SECRET]) : u \in Ids(n)}

Range(s) == {s[i] : i \in DOMAIN s}

RECURSIVE Ascending(_)
Ascending(S) ==
  IF S = {} THEN <<>>
  ELSE LET m == CHOOSE x \in S : \A y \in S : x <= y
       IN <<m>> \o Ascending(S \ {m})

(* --------------------------- store primitives -------------------------- *)

\* Model.findById(id): the document or null
findById(coll, id) == IF id \in DOMAIN coll THEN Some(coll[id]) ELSE None

\* User.findOne({ email }): the first user with that email, or null
findOneByEmail(email) ==
  LET hits == {i \in DOMAIN users : users[i].email = email}
  IN IF hits = {} THEN None
     ELSE Some(users[CHOOSE i \in hits : \A j \in hits : i <= j])

\* Product.find({ _id: { $in: productIds } }): each matching document once,
\* in collection order
findIn(productIds) ==
  LET hits == Ascending(DOMAIN products \cap Range(productIds))
  IN [k \in DOMAIN hits |-> products[hits[k]]]

\* Remove a document from a collection
Without(coll, id) == [i \in DOMAIN coll \ {id} |-> coll[i]]

\* Add a document to a collection
With(coll, doc) == [i \in DOMAIN coll \cup {doc.id} |->
                      IF i = doc.id THEN doc ELSE coll[i]]

\* .populate("user products"): the user reference becomes the user document
\* or null; the product references become the documents that still exist
populate(order) ==
  LET live == SelectSeq(order.products, LAMBDA p : p \in DOMAIN products)
  IN [id |-> order.id,
      status |-> order.status,
      user |-> findById(users, order.user),
      products |-> [k \in DOMAIN live |-> products[live[k]]],
      totalPrice |-> order.totalPrice]

populateAll(ids) ==
  LET s == Ascending(ids) IN [k \in DOMAIN s |-> populate(orders[s[k]])]

(* ------------------------------- tokens -------------------------------- *)

\* JWT.sign({ userId }, JWT_SECRET)
sign(userId) == Some([userId |-> userId, sig |-> JWT_SECRET])

\* JWT.verify(token, JWT_SECRET): the payload, or null standing for a throw
verify(tok) ==
  IF tok = None THEN None
  ELSE IF tok[1].sig # JWT_SECRET THEN None
  ELSE Some([userId |-> tok[1].userId])

(* ------------------------- outcomes of a resolver ---------------------- *)

\* the stores after a resolver and what it returned
Outcome(u, p, o, i, ok, msg, res) ==
  [users |-> u, products |-> p, orders |-> o, oid |-> i,
   ok |-> ok, msg |-> msg, res |-> res]

Throw(msg) == Outcome(users, products, orders, oid, FALSE, msg, None)
Return(msg, res) == Outcome(users, products, orders, oid, TRUE, msg, res)

\* JavaScript !x for a price
Falsy(price) == price = None \/ price[1] = 0

\* products.reduce((acc, product) => ..., 0): the sum, or null standing for
\* the throw on a falsy price
RECURSIVE reduce(_, _)
reduce(prods, acc) ==
  IF prods = <<>> THEN Some(acc)
  ELSE IF Falsy(Head(prods).price) THEN None
  ELSE reduce(Tail(prods), acc + Head(prods).price[1])

(* ------------------------------ resolvers ------------------------------ *)
\* Each resolver is called as resolver(parent, args, context); c is the
\* context value of the request.

Query_products(c) ==
  Return("", [k \in DOMAIN Ascending(DOMAIN products) |->
                 products[Ascending(DOMAIN products)[k]]])

getProduct(c, id) == Return("", findById(products, id))

\* orders() that joins each order with its products and so loses the orders
\* with a product that is gone
Query_orders_Joined(c) ==
  Return("", populateAll({i \in DOMAIN orders :
                            Range(orders[i].products) \subseteq DOMAIN products}))

Query_orders(c) == Return("", populateAll(DOMAIN orders))

Query_order(c, id) ==
  Return("", IF id \in DOMAIN orders THEN Some(populate(orders[id])) ELSE None)

userOrders(c, userId) ==
  Return("", populateAll({i \in DOMAIN orders : orders[i].user = userId}))

createProduct(c, name, price) ==
  LET id == oid.products + 1
      product == [id |-> id, name |-> name, price |-> Some(price)]
  IN Outcome(users, With(products, product), orders,
             [oid EXCEPT !.products = id], TRUE, "", Some(product))

\* updateProduct that also re-prices the orders referencing the product
updateProduct_Recalc(c, id, name, price) ==
  IF id \notin DOMAIN products THEN Return("", None)
  ELSE LET old == products[id]
           product == [id |-> id,
                       name |-> IF name = <<>> THEN old.name ELSE name[1],
                       price |-> IF price = <<>> THEN old.price ELSE price[1]]
           new == With(products, product)
           total(o) == reduce([k \in DOMAIN o.products |->
                                 IF o.products[k] \in DOMAIN new
                                 THEN new[o.products[k]]
                                 ELSE [price |-> None]], 0)
       IN Outcome(users, new,
                  [o \in DOMAIN orders |->
                     IF id \in Range(orders[o].products) /\ total(orders[o]) # None
                     THEN [orders[o] EXCEPT !.totalPrice = total(orders[o])[1]]
                     ELSE orders[o]],
                  oid, TRUE, "", Some(product))

\* findByIdAndUpdate(id, { name, ..., price }, { new: true }): a key whose
\* value is undefined is left out of the update, an explicit null is stored
updateProduct(c, id, name, price) ==
  IF id \notin DOMAIN products THEN Return("", None)
  ELSE LET old == products[id]
           product == [id |-> id,
                       name |-> IF name = <<>> THEN old.name ELSE name[1],
                       price |-> IF price = <<>> THEN old.price ELSE price[1]]
       IN Outcome(users, With(products, product), orders, oid,
                  TRUE, "", Some(product))

deleteProduct(c, id) ==
  IF findById(products, id) = None THEN Return("Product already deleted", None)
  ELSE Outcome(users, Without(products, id), orders, oid,
               TRUE, "Product deleted", None)

\* createOrder that orders the products it found and ignores the others
createOrder_SkipMissing(c, userId, productIds) ==
  IF findById(users, userId) = None THEN Throw("User not found")
  ELSE LET found == findIn(productIds)
           totalPrice == reduce(found, 0) IN
      IF totalPrice = None THEN Throw("Product price is undefined or null")
      ELSE LET id == oid.orders + 1
               order == [id |-> id, status |-> StatusDefault, user |-> userId,
                         products |-> productIds, totalPrice |-> totalPrice[1]]
           IN Outcome(users, products, With(orders, order),
                      [oid EXCEPT !.orders = id], TRUE, "", Some(populate(order)))

\* createOrder that saves the order before it totals the prices
createOrder_SaveFirst(c, userId, productIds) ==
  IF findById(users, userId) = None THEN Throw("User not found")
  ELSE LET found == findIn(productIds) IN
    IF Len(found) # Len(productIds) THEN Throw("One or more products not found")
    ELSE LET totalPrice == reduce(found, 0)
             id == oid.orders + 1
             order == [id |-> id, status |-> StatusDefault, user |-> userId,
                       products |-> productIds,
                       totalPrice |-> IF totalPrice = None THEN 0
                                      ELSE totalPrice[1]]
         IN IF totalPrice = None
            THEN Outcome(users, products, With(orders, order),
                         [oid EXCEPT !.orders = id], FALSE,
                         "Product price is undefined or null", None)
            ELSE Outcome(users, products, With(orders, order),
                         [oid EXCEPT !.orders = id], TRUE, "",
                         Some(populate(order)))

createOrder(c, userId, productIds) ==
  IF findById(users, userId) = None THEN Throw("User not found")
  ELSE LET found == findIn(productIds) IN
    IF Len(found) # Len(productIds) THEN Throw("One or more products not found")
    ELSE LET totalPrice == reduce(found, 0) IN
      IF totalPrice = None THEN Throw("Product price is undefined or null")
      ELSE LET id == oid.orders + 1
               order == [id |-> id, status |-> StatusDefault, user |-> userId,
                         products |-> productIds, totalPrice |-> totalPrice[1]]
           IN Outcome(users, products, With(orders, order),
                      [oid EXCEPT !.orders = id], TRUE, "", Some(populate(order)))

\* updateOrderStatus that replaces the document by { status } instead of
\* setting one field
updateOrderStatus_Replace(c, id, status) ==
  IF id \notin DOMAIN orders THEN Throw("Order with id ${id} not found")
  ELSE LET order == [id |-> id, status |-> status, user |-> orders[id].user,
                     products |-> <<>>, totalPrice |-> 0]
       IN Outcome(users, products, With(orders, order), oid,
                  TRUE, "updated sucessfully", Some(populate(order)))

\* updateOrderStatus that only moves an order forward through the enum
updateOrderStatus_ForwardOnly(c, id, status) ==
  LET rank(st) == CASE st = "placed" -> 1 [] st = "processing" -> 2
                    [] st = "shipped" -> 3 [] st = "delivered" -> 4
                    [] OTHER -> 0 IN
  IF id \notin DOMAIN orders THEN Throw("Order with id ${id} not found")
  ELSE IF rank(status) < rank(orders[id].status)
  THEN Throw("Invalid status transition")
  ELSE LET order == [orders[id] EXCEPT !.status = status]
       IN Outcome(users, products, With(orders, order), oid,
                  TRUE, "updated sucessfully", Some(populate(order)))

\* updateOrderStatus with { upsert: true }: an id without an order gets one
updateOrderStatus_Upsert(c, id, status) ==
  LET order == IF id \in DOMAIN orders
               THEN [orders[id] EXCEPT !.status = status]
               ELSE [id |-> id, status |-> status, user |-> 0,
                     products |-> <<>>, totalPrice |-> 0]
      max == IF id > oid.orders THEN id ELSE oid.orders
  IN Outcome(users, products, With(orders, order),
             [oid EXCEPT !.orders = max], TRUE, "updated sucessfully",
             Some(populate(order)))

\* findByIdAndUpdate(id, { status }, { new: true }): update validators are
\* off, the enum of the schema is not applied
updateOrderStatus(c, id, status) ==
  IF id \notin DOMAIN orders THEN Throw("Order with id ${id} not found")
  ELSE LET order == [orders[id] EXCEPT !.status = status]
       IN Outcome(users, products, With(orders, order), oid,
                  TRUE, "updated sucessfully", Some(populate(order)))

\* deleteOrder that treats a missing order as an error
deleteOrder_Throws(c, id) ==
  IF findById(orders, id) = None THEN Throw("Order not found")
  ELSE Outcome(users, products, Without(orders, id), oid,
               TRUE, "Order Deleted", None)

deleteOrder(c, id) ==
  IF findById(orders, id) = None THEN Return("Order already deleted", None)
  ELSE Outcome(users, products, Without(orders, id), oid,
               TRUE, "Order Deleted", None)

\* signUp without the lookup of the email
signUp_NoCheck(c, name, email, password) ==
  LET id == oid.users + 1
      user == [id |-> id, name |-> name, email |-> email, password |-> password]
  IN Outcome(With(users, user), products, orders,
             [oid EXCEPT !.users = id], TRUE, "User Created",
             Some([id |-> id, token |-> sign(id)]))

signUp(c, name, email, password) ==
  IF findOneByEmail(email) # None THEN Throw("User already exists")
  ELSE LET id == oid.users + 1
           user == [id |-> id, name |-> name, email |-> email,
                    password |-> password]
       IN Outcome(With(users, user), products, orders,
                  [oid EXCEPT !.users = id], TRUE, "User Created",
                  Some([id |-> id, token |-> sign(id)]))

\* signIn that does not compare the password
signIn_NoPassword(c, email, password) ==
  LET user == findOneByEmail(email) IN
  IF user = None THEN Throw("Invalid email or password")
  ELSE Return("", Some([userId |-> user[1].id, token |-> sign(user[1].id)]))

signIn(c, email, password) ==
  LET user == findOneByEmail(email) IN
  IF user = None \/ user[1].password # password
  THEN Throw("Invalid email or password")
  ELSE Return("", Some([userId |-> user[1].id, token |-> sign(user[1].id)]))

\* signOut that asks for a signed-in caller
signOut_RequiresUser(c) ==
  IF c.user = None THEN Throw("Not authenticated") ELSE Return("", Some(TRUE))

signOut(c) == Return("", Some(TRUE))

\* the context callback without its try/catch
context_NoCatch(tok) ==
  LET decoded == verify(tok) IN
  IF decoded = None THEN [user |-> None, threw |-> TRUE]
  ELSE [user |-> findById(users, decoded[1].userId), threw |-> FALSE]

\* the context callback that takes the first user instead of the user of
\* the token
context_FindOne(tok) ==
  LET decoded == verify(tok) IN
  IF decoded = None THEN [user |-> None, threw |-> FALSE]
  ELSE [user |-> IF users = <<>> THEN None ELSE Some(users[1]),
        threw |-> FALSE]

\* The context callback: threw says whether the callback itself raised
context(tok) ==
  LET decoded == verify(tok) IN
  IF decoded = None THEN [user |-> None, threw |-> FALSE]
  ELSE [user |-> findById(users, decoded[1].userId), threw |-> FALSE]

(* ------------------------------ dispatch ------------------------------- *)

Execute(req, c) ==
  CASE req.op = "products" -> Query_products(c)
    [] req.op = "getProduct" -> getProduct(c, req.id)
    [] req.op = "orders" -> Query_orders(c)
    [] req.op = "order" -> Query_order(c, req.id)
    [] req.op = "userOrders" -> userOrders(c, req.userId)
    [] req.op = "createProduct" -> createProduct(c, req.name, req.price)
    [] req.op = "updateProduct" -> updateProduct(c, req.id, req.name, req.price)
    [] req.op = "deleteProduct" -> deleteProduct(c, req.id)
    [] req.op = "createOrder" -> createOrder(c, req.userId, req.productIds)
    [] req.op = "updateOrderStatus" -> updateOrderStatus(c, req.id, req.status)
    [] req.op = "deleteOrder" -> deleteOrder(c, req.id)
    [] req.op = "signUp" -> signUp(c, req.name, req.email, req.password)
    [] req.op = "signIn" -> signIn(c, req.email, req.password)
    [] req.op = "signOut" -> signOut(c)

Docs(i) == i.users + i.products + i.orders

\* The response a client observes: the request and what the resolver
\* returned or threw.  was is the status the targeted order had when an
\* updateOrderStatus request arrived.
Response(req, e) ==
  [ok |-> e.ok, msg |-> e.msg, res |-> e.res, req |-> req,
   was |-> IF req.op = "updateOrderStatus" /\ req.id \in DOMAIN orders
           THEN orders[req.id].status ELSE ""]

NoResponse ==
  [ok |-> TRUE, msg |-> "", res |-> None, req |-> [op |-> "none"], was |-> ""]

\* The resolver of req runs with the context of the request and the
\* response goes out
Respond(req) ==
  /\ LET e == Execute(req, ctx) IN
       /\ Docs(e.oid) <= MaxDocs
       /\ users' = e.users
       /\ products' = e.products
       /\ orders' = e.orders
       /\ oid' = e.oid
       /\ last' = Response(req, e)
  /\ pc' = "idle"
  /\ token' = None
  /\ ctx' = Anonymous
  /\ UNCHANGED flight

(* ------------------------------- actions -------------------------------- *)

Init ==
  /\ users = <<>>
  /\ products = <<>>
  /\ orders = <<>>
  /\ oid = [users |-> 0, products |-> 0, orders |-> 0]
  /\ pc = "idle"
  /\ token = None
  /\ ctx = Anonymous
  /\ last = NoResponse
  /\ flight = [cl \in Clients |-> None]

\* A request arrives with an authorization header; the context callback runs
Context ==
  /\ pc = "idle"
  /\ \E tok \in Tokens(oid.users) :
       LET c == context(tok) IN
         /\ token' = tok
         /\ IF c.threw
            THEN /\ pc' = "idle"
                 /\ ctx' = Anonymous
                 /\ last' = [NoResponse EXCEPT !.req = [op |-> "context"],
                                               !.ok = FALSE,
                                               !.msg = "context creation failed"]
            ELSE /\ pc' = "resolver"
                 /\ ctx' = [user |-> c.user]
                 /\ last' = NoResponse
  /\ UNCHANGED <<users, products, orders, oid, flight>>

Products ==
  /\ pc = "resolver"
  /\ Respond([op |-> "products"])

GetProduct ==
  /\ pc = "resolver"
  /\ \E id \in Ids(oid.products) : Respond([op |-> "getProduct", id |-> id])

Orders ==
  /\ pc = "resolver"
  /\ Respond([op |-> "orders"])

Order ==
  /\ pc = "resolver"
  /\ \E id \in Ids(oid.orders) : Respond([op |-> "order", id |-> id])

UserOrders ==
  /\ pc = "resolver"
  /\ \E userId \in Ids(oid.users) :
       Respond([op |-> "userOrders", userId |-> userId])

CreateProduct ==
  /\ pc = "resolver"
  /\ \E name \in Names, price \in Prices :
       Respond([op |-> "createProduct", name |-> name, price |-> price])

\* every name is the one name of Names, so an update that names the product
\* again is the update that leaves the name out
UpdateProduct ==
  /\ pc = "resolver"
  /\ \E id \in Ids(oid.products), price \in Maybe(Maybe(Prices)) :
       Respond([op |-> "updateProduct", id |-> id, name |-> None,
                price |-> price])

DeleteProduct ==
  /\ pc = "resolver"
  /\ \E id \in Ids(oid.products) : Respond([op |-> "deleteProduct", id |-> id])

CreateOrder ==
  /\ pc = "resolver"
  /\ \E userId \in Ids(oid.users), productIds \in IdLists(oid.products) :
       Respond([op |-> "createOrder", userId |-> userId,
                productIds |-> productIds])

UpdateOrderStatus ==
  /\ pc = "resolver"
  /\ \E id \in Ids(oid.orders), status \in StatusInputs :
       Respond([op |-> "updateOrderStatus", id |-> id, status |-> status])

DeleteOrder ==
  /\ pc = "resolver"
  /\ \E id \in Ids(oid.orders) : Respond([op |-> "deleteOrder", id |-> id])

SignUp ==
  /\ pc = "resolver"
  /\ \E name \in Names, email \in Emails, password \in Passwords :
       Respond([op |-> "signUp", name |-> name, email |-> email,
                password |-> password])

SignIn ==
  /\ pc = "resolver"
  /\ \E email \in Emails, password \in Passwords :
       Respond([op |-> "signIn", email |-> email, password |-> password])

SignOut ==
  /\ pc = "resolver"
  /\ Respond([op |-> "signOut"])

Next ==
  \/ Context
  \/ Products
  \/ GetProduct
  \/ Orders
  \/ Order
  \/ UserOrders
  \/ CreateProduct
  \/ UpdateProduct
  \/ DeleteProduct
  \/ CreateOrder
  \/ UpdateOrderStatus
  \/ DeleteOrder
  \/ SignUp
  \/ SignIn
  \/ SignOut

Spec == Init /\ [][Next]_vars

\* Every state has the shapes above
TypeOK ==
  /\ \A i \in DOMAIN users : users[i] \in UserDoc /\ users[i].id = i
  /\ \A i \in DOMAIN products : products[i] \in ProductDoc /\ products[i].id = i
  /\ \A i \in DOMAIN orders : orders[i] \in OrderDoc /\ orders[i].id = i
  /\ DOMAIN users = 1..oid.users
  /\ DOMAIN products \subseteq 1..oid.products
  /\ DOMAIN orders \subseteq 1..oid.orders
  /\ oid.users + oid.products + oid.orders <= MaxDocs
  /\ pc \in {"idle", "resolver"}
  /\ ctx.user = None \/ (Len(ctx.user) = 1 /\ ctx.user[1] \in UserDoc)
  /\ pc = "idle" => ctx = Anonymous /\ token = None
  /\ last.req \in Request
  /\ last.ok \in BOOLEAN
  /\ \A cl \in Clients :
       flight[cl] # None =>
         /\ flight[cl][1].req \in Request
         /\ flight[cl][1].req.op \in {"createOrder", "signUp"}

(* -------------------------- requests in flight -------------------------- *)
\* A resolver is an async function: it runs up to an await, its store call
\* is executed, and it resumes with the result.  Between two store calls of
\* one request the store calls of other requests run.  SpecAsync serves
\* createOrder and signUp, the resolvers that read and then write, one store
\* call at a time on the connections of Clients, together with createProduct
\* and deleteProduct, which are one store call each.  A step is one store
\* call with the code that runs on its result, up to the next await; the
\* arrival of a request is part of the step of its first store call.  last
\* holds a response in the state it is sent in, with the name of the
\* operation it answers; the arguments of a request in flight are in flight.

\* the resolver on connection cl is suspended with frame f
Suspend(cl, f) ==
  /\ flight' = [flight EXCEPT ![cl] = Some(f)]
  /\ last' = NoResponse

\* the resolver on connection cl returned or threw: the response goes out
Finish(cl, req, e) ==
  /\ flight' = [flight EXCEPT ![cl] = None]
  /\ last' = Response([op |-> req.op], e)

\* the requests in flight
InFlight == {cl \in Clients : flight[cl] # None}

\* a request arrives and takes cl, the first free connection: the context
\* callback runs and the resolver is called.  A request is admitted while
\* MaxDocs leaves a document for it and for each request in flight.
Arrives(cl) ==
  /\ flight[cl] = None
  /\ cl = "a" \/ flight["a"] # None
  /\ Docs(oid) + Cardinality(InFlight) < MaxDocs
  /\ \E tok \in Tokens(oid.users) : ~context(tok).threw

\* the locals of a resolver that has been called with req and awaits at
Frame(req, at) == [id |-> 0, totalPrice |-> 0, req |-> req, at |-> at]

\* the frame of the resolver of operation op that awaits the store call at
Awaits(cl, op, at) ==
  /\ flight[cl] # None
  /\ flight[cl][1].req.op = op
  /\ flight[cl][1].at = at

\* the order document createOrder builds from its arguments and its total
NewOrder(f, id) ==
  [id |-> id, status |-> StatusDefault, user |-> f.req.userId,
   products |-> f.req.productIds, totalPrice |-> f.totalPrice]

\* order.save() in a transaction that reads the products again
createOrder_save_Recheck(f) ==
  IF Range(f.req.productIds) \subseteq DOMAIN products
  THEN Outcome(users, products, With(orders, NewOrder(f, oid.orders + 1)),
               [oid EXCEPT !.orders = oid.orders + 1], TRUE, "",
               Some(oid.orders + 1))
  ELSE Throw("One or more products not found")

\* await order.save(): the document is inserted as built
createOrder_save(f) ==
  Outcome(users, products, With(orders, NewOrder(f, oid.orders + 1)),
          [oid EXCEPT !.orders = oid.orders + 1], TRUE, "",
          Some(oid.orders + 1))

\* await user.save() and the return of signUp
signUp_save(f) ==
  LET id == oid.users + 1
      user == [id |-> id, name |-> f.req.name, email |-> f.req.email,
               password |-> f.req.password]
  IN Outcome(With(users, user), products, orders,
             [oid EXCEPT !.users = id], TRUE, "User Created",
             Some([id |-> id, token |-> sign(id)]))

\* const user = await User.findById(userId); if (!user) throw
CreateOrderFindUser ==
  /\ \E cl \in Clients, userId \in Ids(oid.users),
        productIds \in OneIdLists(oid.products) :
       LET req == [op |-> "createOrder", userId |-> userId,
                   productIds |-> productIds] IN
         /\ Arrives(cl)
         /\ IF findById(users, userId) = None
            THEN Finish(cl, req, Throw("User not found"))
            ELSE Suspend(cl, Frame(req, "findProducts"))
  /\ UNCHANGED <<users, products, orders, oid, pc, token, ctx>>

\* const products = await Product.find(...); the length check; the reduce
CreateOrderFindProducts ==
  /\ \E cl \in Clients :
       /\ Awaits(cl, "createOrder", "findProducts")
       /\ LET f == flight[cl][1]
              found == findIn(f.req.productIds)
              totalPrice == reduce(found, 0)
          IN IF Len(found) # Len(f.req.productIds)
             THEN Finish(cl, f.req, Throw("One or more products not found"))
             ELSE IF totalPrice = None
             THEN Finish(cl, f.req, Throw("Product price is undefined or null"))
             ELSE Suspend(cl, [f EXCEPT !.totalPrice = totalPrice[1],
                                        !.at = "save"])
  /\ UNCHANGED <<users, products, orders, oid, pc, token, ctx>>

\* await order.save()
CreateOrderSave ==
  /\ \E cl \in Clients :
       /\ Awaits(cl, "createOrder", "save")
       /\ LET f == flight[cl][1]
              e == createOrder_save(f)
          IN /\ Docs(e.oid) <= MaxDocs
             /\ orders' = e.orders
             /\ oid' = e.oid
             /\ IF e.ok
                THEN Suspend(cl, [f EXCEPT !.id = e.res[1], !.at = "populate"])
                ELSE Finish(cl, f.req, e)
  /\ UNCHANGED <<users, products, pc, token, ctx>>

\* return order.populate("user products"): the document in memory is
\* populated, whatever became of the stored one
CreateOrderPopulate ==
  /\ \E cl \in Clients :
       /\ Awaits(cl, "createOrder", "populate")
       /\ LET f == flight[cl][1] IN
            Finish(cl, f.req, Return("", Some(populate(NewOrder(f, f.id)))))
  /\ UNCHANGED <<users, products, orders, oid, pc, token, ctx>>

\* const existingUser = await User.findOne({ email }); if (existingUser) throw
SignUpFindOne ==
  /\ \E cl \in Clients, name \in Names, email \in Emails,
        password \in Passwords :
       LET req == [op |-> "signUp", name |-> name, email |-> email,
                   password |-> password] IN
         /\ Arrives(cl)
         /\ IF findOneByEmail(email) # None
            THEN Finish(cl, req, Throw("User already exists"))
            ELSE Suspend(cl, Frame(req, "save"))
  /\ UNCHANGED <<users, products, orders, oid, pc, token, ctx>>

\* await user.save(); the token is signed and the resolver returns
SignUpSave ==
  /\ \E cl \in Clients :
       /\ Awaits(cl, "signUp", "save")
       /\ LET f == flight[cl][1]
              e == signUp_save(f)
          IN /\ Docs(e.oid) <= MaxDocs
             /\ users' = e.users
             /\ oid' = e.oid
             /\ Finish(cl, f.req, e)
  /\ UNCHANGED <<products, orders, pc, token, ctx>>

\* a request whose resolver makes one store call, served between the store
\* calls of the requests in flight
Interleaved(req) ==
  /\ \E tok \in Tokens(oid.users) :
       LET c == context(tok)
           e == Execute(req, [user |-> c.user])
       IN /\ ~c.threw
          /\ Docs(e.oid) <= MaxDocs
          /\ users' = e.users
          /\ products' = e.products
          /\ orders' = e.orders
          /\ oid' = e.oid
          /\ last' = Response([op |-> req.op], e)
  /\ UNCHANGED <<pc, token, ctx, flight>>

CreateProductInterleaved ==
  /\ pc = "idle"
  /\ \E name \in Names, price \in Prices :
       Interleaved([op |-> "createProduct", name |-> name, price |-> price])

DeleteProductInterleaved ==
  /\ pc = "idle"
  /\ \E id \in Ids(oid.products) :
       Interleaved([op |-> "deleteProduct", id |-> id])

NextAsync ==
  \/ CreateOrderFindUser
  \/ CreateOrderFindProducts
  \/ CreateOrderSave
  \/ CreateOrderPopulate
  \/ SignUpFindOne
  \/ SignUpSave
  \/ CreateProductInterleaved
  \/ DeleteProductInterleaved

SpecAsync == Init /\ [][NextAsync]_vars

(* ------------------------------ claims --------------------------------- *)

\* A step in which the resolver of operation op answered
Served(op) == pc = "resolver" /\ pc' = "idle" /\ last'.req.op = op

StoresUnchanged == UNCHANGED <<users, products, orders, oid>>

HasDuplicate(ids) == \E i, j \in DOMAIN ids : i # j /\ ids[i] = ids[j]

\* every id of the list names a product, and that product has a price
AllResolve(ids) == \A i \in DOMAIN ids : ids[i] \in DOMAIN products
AllPriced(ids) == \A i \in DOMAIN ids : products[ids[i]].price # None

\* the sum, over every entry of the list, of the price of its product
RECURSIVE SumOfPrices(_)
SumOfPrices(ids) ==
  IF ids = <<>> THEN 0
  ELSE products[Head(ids)].price[1] + SumOfPrices(Tail(ids))

\* the step stored one new order for the request, priced at SumOfPrices
StoredWithSum(r) ==
  /\ last'.ok
  /\ oid'.orders = oid.orders + 1
  /\ DOMAIN orders' = DOMAIN orders \cup {oid'.orders}
  /\ orders'[oid'.orders].user = r.userId
  /\ orders'[oid'.orders].products = r.productIds
  /\ orders'[oid'.orders].totalPrice = SumOfPrices(r.productIds)

\* C1: whenever createOrder is called with a userId that resolves and
\* productIds that all resolve (to priced products), the call succeeds and
\* the stored totalPrice is the sum over every entry of productIds of that
\* product's price at call time.
C1_TotalIsSumOfEntries ==
  [][Served("createOrder")
       /\ last'.req.userId \in DOMAIN users
       /\ AllResolve(last'.req.productIds)
       /\ AllPriced(last'.req.productIds)
     => StoredWithSum(last'.req)]_vars

\* C2: createOrder accepts productIds that repeat an existing product id:
\* the call succeeds, the stored list keeps the duplicates and every
\* occurrence adds its price to totalPrice.
C2_DuplicatesAccepted ==
  [][Served("createOrder")
       /\ last'.req.userId \in DOMAIN users
       /\ AllResolve(last'.req.productIds)
       /\ AllPriced(last'.req.productIds)
       /\ HasDuplicate(last'.req.productIds)
       /\ \A i \in DOMAIN last'.req.productIds :
            products[last'.req.productIds[i]].price[1] > 0
     => StoredWithSum(last'.req)]_vars

\* C3: createOrder fails with a not-found error when userId names no user,
\* and when some id of productIds names no product; in both cases the order
\* store (and the id it would have allocated) is as before the call.
C3_NotFoundPersistsNothing ==
  [][Served("createOrder") =>
       LET r == last'.req
           noUser == r.userId \notin DOMAIN users
           noProduct == \E i \in DOMAIN r.productIds :
                           r.productIds[i] \notin DOMAIN products
       IN (noUser \/ noProduct) =>
            /\ ~last'.ok
            /\ noUser => last'.msg = "User not found"
            /\ ~noUser => last'.msg = "One or more products not found"
            /\ orders' = orders
            /\ oid' = oid]_vars

\* the user exists, one product of the list exists and another does not
C3_Witness ==
  /\ last.req.op = "createOrder"
  /\ last.req.userId \in DOMAIN users
  /\ \E i \in DOMAIN last.req.productIds :
       /\ last.req.productIds[i] \notin DOMAIN products
       /\ \E j \in DOMAIN last.req.productIds :
            last.req.productIds[j] \in DOMAIN products
  /\ ~last.ok
  /\ last.msg = "One or more products not found"

\* C4: updateOrderStatus on an existing order changes the status of that
\* order and nothing else: its totalPrice, user and products are as before,
\* and so is every other order, every user and every product.
C4_StatusOnly ==
  [][Served("updateOrderStatus") /\ last'.req.id \in DOMAIN orders =>
       LET id == last'.req.id IN
         /\ DOMAIN orders' = DOMAIN orders
         /\ orders'[id].status = last'.req.status
         /\ orders'[id].totalPrice = orders[id].totalPrice
         /\ orders'[id].user = orders[id].user
         /\ orders'[id].products = orders[id].products
         /\ orders'[id].id = id
         /\ \A o \in DOMAIN orders \ {id} : orders'[o] = orders[o]
         /\ users' = users
         /\ products' = products
         /\ oid' = oid]_vars

\* the status of one of two orders was changed
C4_Witness ==
  /\ last.req.op = "updateOrderStatus"
  /\ last.ok
  /\ last.was # last.req.status
  /\ Cardinality(DOMAIN orders) >= 2

\* C5: deleteOrder never throws: on the id of an existing order it removes
\* that order and answers "Order Deleted"; on an id with no order (such as
\* the id of an order deleted before) it changes nothing and answers
\* "Order already deleted".  deleteProduct does the same for products.
C5_DeleteIdempotent ==
  [][/\ Served("deleteOrder") =>
          LET id == last'.req.id IN
            /\ last'.ok
            /\ <<users', products', oid'>> = <<users, products, oid>>
            /\ id \in DOMAIN orders =>
                 /\ last'.msg = "Order Deleted"
                 /\ DOMAIN orders' = DOMAIN orders \ {id}
                 /\ \A o \in DOMAIN orders' : orders'[o] = orders[o]
            /\ id \notin DOMAIN orders =>
                 /\ last'.msg = "Order already deleted"
                 /\ orders' = orders
     /\ Served("deleteProduct") =>
          LET id == last'.req.id IN
            /\ last'.ok
            /\ <<users', orders', oid'>> = <<users, orders, oid>>
            /\ id \in DOMAIN products =>
                 /\ last'.msg = "Product deleted"
                 /\ DOMAIN products' = DOMAIN products \ {id}
                 /\ \A q \in DOMAIN products' : products'[q] = products[q]
            /\ id \notin DOMAIN products =>
                 /\ last'.msg = "Product already deleted"
                 /\ products' = products]_vars

\* deleteOrder was called again on the id of an order deleted before
C5_Witness ==
  /\ last.req.op = "deleteOrder"
  /\ last.req.id <= oid.orders
  /\ last.req.id \notin DOMAIN orders
  /\ last.ok
  /\ last.msg = "Order already deleted"

\* C6: signUp throws "User already exists" whenever some user has the email,
\* and then the user store is as before; when no user has the email it adds
\* exactly one user, with the given name and email and the password verbatim,
\* and leaves the others as they were.
C6_SignUpConflict ==
  [][Served("signUp") =>
       LET r == last'.req IN
         IF \E u \in DOMAIN users : users[u].email = r.email
         THEN /\ ~last'.ok
              /\ last'.msg = "User already exists"
              /\ users' = users
              /\ oid' = oid
         ELSE /\ last'.ok
              /\ Cardinality(DOMAIN users' \ DOMAIN users) = 1
              /\ DOMAIN users \subseteq DOMAIN users'
              /\ \A u \in DOMAIN users : users'[u] = users[u]
              /\ \A n \in DOMAIN users' \ DOMAIN users :
                   /\ users'[n].email = r.email
                   /\ users'[n].password = r.password
                   /\ users'[n].name = r.name]_vars

\* a second signUp with an email in use, with another password
C6_Witness ==
  /\ last.req.op = "signUp"
  /\ ~last.ok
  /\ last.msg = "User already exists"
  /\ \E u \in DOMAIN users :
       users[u].email = last.req.email /\ users[u].password # last.req.password

C8_ContextNeverRaises ==
  [][/\ pc = "idle" =>
          /\ pc' = "resolver"
          /\ (\/ token' = None
              \/ token'[1].sig # JWT_SECRET
              \/ token'[1].userId \notin DOMAIN users) => ctx'.user = None
     /\ pc = "resolver" /\ ctx.user = None =>
          \A u \in DOMAIN users :
            LET e == Execute(last'.req, [user |-> Some(users[u])]) IN
              /\ <<users', products', orders', oid'>>
                   = <<e.users, e.products, e.orders, e.oid>>
              /\ last' = Response(last'.req, e)]_vars

\* a token signed with the secret for an id that names no user, while users
\* exist, gave the anonymous context and the resolver is about to run
C8_Witness ==
  /\ pc = "resolver"
  /\ token # None
  /\ token[1].sig = JWT_SECRET
  /\ token[1].userId \notin DOMAIN users
  /\ users # <<>>
  /\ ctx.user = None

\* C9: no step changes the totalPrice of an order that stays in the store,
\* and the reads orders, order and userOrders change no store and return,
\* for each order, its stored totalPrice together with every referenced
\* product that still exists, at its current price.
C9_TotalPriceFrozen ==
  [][/\ \A o \in DOMAIN orders \cap DOMAIN orders' :
          orders'[o].totalPrice = orders[o].totalPrice
     /\ (\E op \in {"orders", "order", "userOrders"} : Served(op)) =>
          /\ StoresUnchanged
          /\ \A r \in Range(last'.res) :
               /\ r.id \in DOMAIN orders
               /\ r.totalPrice = orders[r.id].totalPrice
               /\ \A k \in DOMAIN r.products :
                    /\ r.products[k].id \in DOMAIN products
                    /\ r.products[k].id \in Range(orders[r.id].products)
                    /\ r.products[k] = products[r.products[k].id]
               /\ \A q \in Range(orders[r.id].products) \cap DOMAIN products :
                    \E k \in DOMAIN r.products : r.products[k].id = q]_vars

\* order(id) returned an order whose product now has another price than the
\* one the order was totalled with
C9_Witness ==
  /\ last.req.op = "order"
  /\ last.res # None
  /\ Len(last.res[1].products) = 1
  /\ last.res[1].products[1].price # None
  /\ last.res[1].products[1].price[1] # last.res[1].totalPrice
  /\ last.res[1].totalPrice > 0

\* C10: for an existing order in any status, updateOrderStatus with placed,
\* processing, shipped or delivered succeeds and leaves the order in that
\* status, whether the move skips a stage or goes backwards.
C10_AnyTransition ==
  [][Served("updateOrderStatus")
       /\ last'.req.id \in DOMAIN orders
       /\ last'.req.status \in StatusEnum
     => /\ last'.ok
        /\ last'.req.id \in DOMAIN orders'
        /\ orders'[last'.req.id].status = last'.req.status
        /\ last'.res[1].status = last'.req.status]_vars

\* an order that was delivered went back to placed
C10_Witness ==
  /\ last.req.op = "updateOrderStatus"
  /\ last.ok
  /\ last.was = "delivered"
  /\ last.req.status = "placed"
  /\ orders[last.req.id].status = "placed"

\* C11: createOrder, for a user that exists and distinct product ids that all
\* resolve, fails with the missing-price error exactly when one of the
\* products has no defined price; when every price is defined (0 included)
\* the call succeeds and each price is part of totalPrice.
C11_MissingPriceIff ==
  [][Served("createOrder")
       /\ last'.req.userId \in DOMAIN users
       /\ AllResolve(last'.req.productIds)
       /\ ~HasDuplicate(last'.req.productIds)
     => LET undefinedPrice == ~AllPriced(last'.req.productIds) IN
          /\ (~last'.ok /\ last'.msg = "Product price is undefined or null")
               <=> undefinedPrice
          /\ ~undefinedPrice => StoredWithSum(last'.req)]_vars

\* C12: updateOrderStatus with an id that names no order (never allocated,
\* or the id of an order deleted before) throws the not-found error and
\* leaves users, products and orders as they were: no order appears.
C12_UnknownOrderNotFound ==
  [][Served("updateOrderStatus") /\ last'.req.id \notin DOMAIN orders =>
       /\ ~last'.ok
       /\ last'.msg = "Order with id ${id} not found"
       /\ last'.res = None
       /\ StoresUnchanged
       /\ last'.req.id \notin DOMAIN orders']_vars

\* updateOrderStatus was called on the id of an order deleted before, while
\* another order exists
C12_Witness ==
  /\ last.req.op = "updateOrderStatus"
  /\ last.req.id <= oid.orders
  /\ last.req.id \notin DOMAIN orders
  /\ ~last.ok
  /\ last.msg = "Order with id ${id} not found"

\* C13: a createOrder that succeeds adds exactly one order, with a new id,
\* the given userId and the given productIds, and leaves every other order,
\* every user and every product as it was; a createOrder that fails leaves
\* all three stores as they were.
C13_OneWrite ==
  [][Served("createOrder") =>
       /\ users' = users
       /\ products' = products
       /\ IF last'.ok
          THEN /\ Cardinality(DOMAIN orders' \ DOMAIN orders) = 1
               /\ DOMAIN orders \subseteq DOMAIN orders'
               /\ \A o \in DOMAIN orders : orders'[o] = orders[o]
               /\ \A n \in DOMAIN orders' \ DOMAIN orders :
                    /\ n > oid.orders
                    /\ orders'[n].id = n
                    /\ orders'[n].user = last'.req.userId
                    /\ orders'[n].products = last'.req.productIds
                    /\ last'.res[1].id = n
          ELSE /\ orders' = orders
               /\ oid' = oid]_vars

\* an order with products was created and is in the store as requested
C13_Witness ==
  /\ last.req.op = "createOrder"
  /\ last.ok
  /\ last.res[1].id \in DOMAIN orders
  /\ last.req.productIds # <<>>
  /\ orders[last.res[1].id].products = last.req.productIds

\* C14: in every state the status of every stored order is one of placed,
\* processing, shipped, delivered, and the order a createOrder returns has
\* status placed.
C14_StatusInEnum ==
  /\ \A o \in DOMAIN orders : orders[o].status \in StatusEnum
  /\ last.req.op = "createOrder" /\ last.ok =>
       last.res[1].status = StatusDefault

Selected(req) ==
  CASE req.op = "orders" -> DOMAIN orders
    [] req.op = "order" -> DOMAIN orders \cap {req.id}
    [] req.op = "userOrders" -> {o \in DOMAIN orders : orders[o].user = req.userId}

\* C19: orders(), order(id) and userOrders(userId) never throw, and return
\* every order they select, also one whose product was deleted after the
\* order was created: with its stored status and totalPrice, and with the
\* products that still exist; the deleted product is not in the result.
C19_ReadSurvivesDeletedProduct ==
  [][(\E op \in {"orders", "order", "userOrders"} : Served(op)) =>
       /\ last'.ok
       /\ {r.id : r \in Range(last'.res)} = Selected(last'.req)
       /\ \A r \in Range(last'.res) :
            /\ r.status = orders[r.id].status
            /\ r.totalPrice = orders[r.id].totalPrice
            /\ {r.products[k].id : k \in DOMAIN r.products}
                 = Range(orders[r.id].products) \cap DOMAIN products]_vars

\* orders() returned an order whose only product was deleted after the order
\* was created: the total is kept and the product list is empty
C19_Witness ==
  /\ last.req.op = "orders"
  /\ last.ok
  /\ \E r \in Range(last.res) :
       /\ orders[r.id].products # <<>>
       /\ Range(orders[r.id].products) \cap DOMAIN products = {}
       /\ r.products = <<>>
       /\ r.totalPrice = orders[r.id].totalPrice
       /\ r.totalPrice > 0

\* C17: createOrder does not look at the products again when it writes: a
\* createOrder that passed its product lookup stores its order, with the
\* productIds of the request and the total of the lookup, whatever happened
\* to the products since, deleteProduct included, and then returns the
\* order; so an order that has just been stored can reference a product that
\* is no longer in the store.
C17_WriteAfterDelete ==
  [][\A cl \in Clients :
       /\ Awaits(cl, "createOrder", "save") /\ flight'[cl] # flight[cl] =>
            LET f == flight[cl][1]
                n == oid.orders + 1
            IN /\ DOMAIN orders' = DOMAIN orders \cup {n}
               /\ orders'[n].products = f.req.productIds
               /\ orders'[n].totalPrice = f.totalPrice
               /\ Awaits(cl, "createOrder", "populate")'
               /\ flight'[cl][1].id = n
       /\ Awaits(cl, "createOrder", "populate") /\ flight'[cl] # flight[cl] =>
            /\ last'.ok
            /\ last'.res[1].id = flight[cl][1].id
            /\ last'.res[1].totalPrice = flight[cl][1].totalPrice]_vars

\* a createOrder has just written its order (no response was sent since and
\* nothing else is in flight, so the write is the last step) and the product
\* of the order, found by its lookup, is gone: it was deleted between the
\* two store calls
C17_Witness ==
  \E cl \in Clients :
    /\ Awaits(cl, "createOrder", "populate")
    /\ InFlight = {cl}
    /\ last = NoResponse
    /\ flight[cl][1].id \in DOMAIN orders
    /\ flight[cl][1].totalPrice > 0
    /\ \E k \in DOMAIN orders[flight[cl][1].id].products :
         orders[flight[cl][1].id].products[k] \notin DOMAIN products

\* C18: in every state, whatever the interleaving of the store calls of the
\* signUp requests, no two users have the same email.
C18_EmailUnique ==
  \A u, v \in DOMAIN users : users[u].email = users[v].email => u = v

====
